---------------------------- MODULE Spec2Model ----------------------------
(***************************************************************************)
(* Model of chess_game.py: the ChessGame controller (menu / playing /      *)
(* game-over), its input routing, move application, game-over detection,   *)
(* resignation, the frame loop with piece animation and the engine-move    *)
(* request.                                                                *)
(*                                                                         *)
(* The rules library (python-chess) is an external collaborator.  It is    *)
(* modelled by a reduced chess with the same rule structure on a           *)
(* NumFiles x NumRanks board: piece moves, captures, promotion on the far  *)
(* rank (four promotion moves per pawn advance, none without a promotion   *)
(* piece), legality = the mover's king is not left attacked, checkmate,    *)
(* stalemate and insufficient material.  Castling, en passant and the      *)
(* pawn double step are left out.                                          *)
(***************************************************************************)
EXTENDS Integers, Sequences, FiniteSets, TLC

(***************************************************************************)
(* Bounds of the model.                                                    *)
(***************************************************************************)
NumFiles == 3
NumRanks == 4
MaxPlies == 2
MaxAnims == 1

(***************************************************************************)
(* chess: colours, piece types, squares.                                   *)
(***************************************************************************)
WHITE == "white"
BLACK == "black"
Colors == {WHITE, BLACK}

PAWN == "p"
KNIGHT == "n"
BISHOP == "b"
ROOK == "r"
QUEEN == "q"
KING == "k"
PieceTypes == {PAWN, KNIGHT, BISHOP, ROOK, QUEEN, KING}
NoPromotion == "none"
Promotions == {QUEEN, ROOK, BISHOP, KNIGHT}

Squares == 0 .. (NumFiles * NumRanks - 1)
NoSquare == -1

square(file, rank) == rank * NumFiles + file
square_file(sq) == sq % NumFiles
square_rank(sq) == sq \div NumFiles

LastRank == NumRanks - 1

Other(color) == IF color = WHITE THEN BLACK ELSE WHITE

NoPiece == [piece_type |-> "none", color |-> "none"]
Piece(piece_type, color) == [piece_type |-> piece_type, color |-> color]

Moves == [from_square : Squares, to_square : Squares,
          promotion : Promotions \cup {NoPromotion}]
NoMove == [from_square |-> NoSquare, to_square |-> NoSquare, promotion |-> NoPromotion]
Move(from_square, to_square) ==
    [from_square |-> from_square, to_square |-> to_square, promotion |-> NoPromotion]

(***************************************************************************)
(* chess.Board: piece placement (at), side to move (turn), number of moves *)
(* played (ply), and the legal moves of the position (legal_moves), which  *)
(* are a function of the placement and the side to move and are computed   *)
(* once, when the position arises.  The rule operators below work on the   *)
(* placement and side to move.                                             *)
(***************************************************************************)
piece_at(b, sq) == b.at[sq]

Abs(x) == IF x < 0 THEN 0 - x ELSE x
Sign(x) == IF x < 0 THEN 0 - 1 ELSE IF x > 0 THEN 1 ELSE 0
MaxOf(x, y) == IF x > y THEN x ELSE y

\* the squares strictly between two squares on a common line are all empty
ClearLine(b, from, to) ==
    LET df == square_file(to) - square_file(from)
        dr == square_rank(to) - square_rank(from)
        n  == MaxOf(Abs(df), Abs(dr))
    IN \A j \in 1 .. (n - 1) :
          piece_at(b, square(square_file(from) + j * Sign(df),
                             square_rank(from) + j * Sign(dr))) = NoPiece

\* the piece standing on `from` attacks the square `to`
Attacks(b, from, to) ==
    LET p  == piece_at(b, from)
        df == square_file(to) - square_file(from)
        dr == square_rank(to) - square_rank(from)
        diagonal == Abs(df) = Abs(dr)
        straight == df = 0 \/ dr = 0
    IN /\ p # NoPiece
       /\ from # to
       /\ CASE p.piece_type = PAWN ->
                   dr = (IF p.color = WHITE THEN 1 ELSE 0 - 1) /\ Abs(df) = 1
            [] p.piece_type = KNIGHT ->
                   {Abs(df), Abs(dr)} = {1, 2}
            [] p.piece_type = KING ->
                   MaxOf(Abs(df), Abs(dr)) = 1
            [] p.piece_type = BISHOP -> diagonal /\ ClearLine(b, from, to)
            [] p.piece_type = ROOK -> straight /\ ClearLine(b, from, to)
            [] p.piece_type = QUEEN ->
                   (diagonal \/ straight) /\ ClearLine(b, from, to)
            [] OTHER -> FALSE

is_attacked_by(b, color, sq) ==
    \E from \in Squares : piece_at(b, from).color = color /\ Attacks(b, from, sq)

KingSquares(b, color) == {sq \in Squares : piece_at(b, sq) = Piece(KING, color)}

\* the king of `color` (if there is one) is attacked
InCheck(b, color) ==
    \E k \in KingSquares(b, color) : is_attacked_by(b, Other(color), k)

is_check(b) == InCheck(b, b.turn)

\* the placement and side to move after a move, played without validation
Play(b, move) ==
    LET p == piece_at(b, move.from_square)
        q == IF move.promotion # NoPromotion THEN Piece(move.promotion, p.color) ELSE p
    IN [at   |-> [sq \in Squares |->
                     IF sq = move.from_square THEN NoPiece
                     ELSE IF sq = move.to_square THEN q
                     ELSE b.at[sq]],
        turn |-> Other(b.turn)]

\* the piece on `from` may go to `to`, before the king-safety test
CanReach(b, from, to) ==
    LET p == piece_at(b, from)
        t == piece_at(b, to)
        df == square_file(to) - square_file(from)
        dr == square_rank(to) - square_rank(from)
        fwd == IF p.color = WHITE THEN 1 ELSE 0 - 1
    IN /\ t.color # p.color
       /\ IF p.piece_type = PAWN
          THEN \/ df = 0 /\ dr = fwd /\ t = NoPiece
               \/ Abs(df) = 1 /\ dr = fwd /\ t # NoPiece
          ELSE Attacks(b, from, to)

\* a pawn of `color` arriving on `to` promotes
IsPromotion(b, from, to) ==
    LET p == piece_at(b, from)
    IN /\ p.piece_type = PAWN
       /\ square_rank(to) = (IF p.color = WHITE THEN LastRank ELSE 0)

\* moves that obey the pieces' movement: a pawn's advance to the far rank
\* is one move per promotion piece, and no move without a promotion piece
pseudo_legal_moves(b) ==
    UNION {UNION {IF IsPromotion(b, from, to)
                  THEN {[from_square |-> from, to_square |-> to, promotion |-> pr] :
                           pr \in Promotions}
                  ELSE {Move(from, to)} :
                  to \in {sq \in Squares : CanReach(b, from, sq)}} :
           from \in {sq \in Squares : piece_at(b, sq).color = b.turn}}

\* the legal moves: those that do not leave the mover's king attacked
LegalMoves(b) ==
    {m \in pseudo_legal_moves(b) : ~InCheck(Play(b, m), b.turn)}

\* a Board value
MakeBoard(at, turn, ply) ==
    [at |-> at, turn |-> turn, ply |-> ply,
     legal_moves |-> LegalMoves([at |-> at, turn |-> turn])]

\* Board.legal_moves
legal_moves(b) == b.legal_moves

\* Board.push: plays the move without validating it
push(b, move) ==
    LET n == Play(b, move) IN MakeBoard(n.at, n.turn, b.ply + 1)

is_checkmate(b) == is_check(b) /\ legal_moves(b) = {}
is_stalemate(b) == ~is_check(b) /\ legal_moves(b) = {}

PiecesOf(b, color) == {sq \in Squares : piece_at(b, sq).color = color}
TypesOn(b, sqs) == {piece_at(b, sq).piece_type : sq \in sqs}
SquareShade(sq) == (square_file(sq) + square_rank(sq)) % 2

has_insufficient_material(b, color) ==
    LET mine == PiecesOf(b, color)
        theirs == PiecesOf(b, Other(color))
        bishops == {sq \in Squares : piece_at(b, sq).piece_type = BISHOP}
    IN IF TypesOn(b, mine) \cap {PAWN, ROOK, QUEEN} # {} THEN FALSE
       ELSE IF KNIGHT \in TypesOn(b, mine)
            THEN Cardinality(mine) <= 2 /\ TypesOn(b, theirs) \subseteq {KING, QUEEN}
       ELSE IF BISHOP \in TypesOn(b, mine)
            THEN /\ Cardinality({SquareShade(sq) : sq \in bishops}) <= 1
                 /\ TypesOn(b, Squares) \cap {PAWN, KNIGHT} = {}
       ELSE TRUE

is_insufficient_material(b) ==
    \A color \in Colors : has_insufficient_material(b, color)

\* a position given as a set of <<square, piece type, colour>>
Placement(ps, turn) ==
    MakeBoard([sq \in Squares |->
                 IF \E x \in ps : x[1] = sq
                 THEN LET x == CHOOSE x \in ps : x[1] = sq IN Piece(x[2], x[3])
                 ELSE NoPiece],
              turn, 0)

\* chess.Board() / Board.reset(): the starting position of the reduced game
InitialBoard ==
    Placement({<<square(0, 1), KING, WHITE>>,
               <<square(0, LastRank - 1), PAWN, WHITE>>,
               <<square(2, 2), ROOK, BLACK>>,
               <<square(2, 0), KING, BLACK>>}, WHITE)

(***************************************************************************)
(* Program constants and values.                                           *)
(***************************************************************************)
SQUARE_SIZE == 87
ANIMATION_SPEED == 8       \* AnimatedPiece.ANIMATION_SPEED, in hundredths
FULL_PROGRESS == 100       \* progress 1.0, in hundredths
TIMEOUT_MS == 1000

NoWinner == "None"
NoEngine == "None"
LiveEngine == "SimpleEngine"
ModeUnset == "unset"       \* two_player_mode is not assigned by __init__
TwoPlayer == "True"
VsComputer == "False"

(***************************************************************************)
(* Pointer positions.  A point is described by what the code computes      *)
(* from it: the file and rank of handle_event (out of range off the        *)
(* board) and the button rectangle that contains it, if any.               *)
(***************************************************************************)
MenuButtons == {"Play vs Computer", "Play with a Friend"}
GameButtons == {"Restart Game", "Resign", "Main Menu"}
GameOverButtons == {"Back to Menu"}
NoButton == "none"

OffFile == NumFiles        \* a file index beyond the board (sidebar side)

BoardPoints == [file : 0 .. (NumFiles - 1), rank : 0 .. (NumRanks - 1), hit : {NoButton}]
\* the centred buttons are laid over the board area
CentrePoints == [file : {1}, rank : {1}, hit : MenuButtons \cup GameOverButtons]
SidebarPoints == [file : {OffFile}, rank : {0}, hit : GameButtons \cup {NoButton}]
Points == BoardPoints \cup CentrePoints \cup SidebarPoints

MOUSEBUTTONDOWN == "MOUSEBUTTONDOWN"
Press(pt) == [type |-> MOUSEBUTTONDOWN, button |-> 1, pos |-> pt]
OtherPress(pt) == [type |-> MOUSEBUTTONDOWN, button |-> 3, pos |-> pt]
\* primary-button presses anywhere, other-button presses on a square and on
\* the Resign and Back to Menu buttons
Events == {Press(pt) : pt \in Points}
            \cup {OtherPress(pt) : pt \in {q \in Points :
                                              \/ q.hit \in {"Resign", "Back to Menu"}
                                              \/ q.file = 0 /\ q.rank = 1}}
SquarePoint(sq) == [file |-> square_file(sq), rank |-> square_rank(sq), hit |-> NoButton]

(***************************************************************************)
(* State of the ChessGame object, the clock, the last operation, and the   *)
(* values update() has returned to a caller of an AnimatedPiece or        *)
(* Button.handle_event to a caller of a Button; a Button and the number    *)
(* of times its callback has run.                                          *)
(***************************************************************************)
VARIABLES board, selected_square, valid_moves, animated_pieces, game_over,
          winner, player_color, state, two_player_mode,
          computer_move_scheduled, computer_thinking_start, engine,
          clock, last, returns, button, callback_calls

progvars == <<board, selected_square, valid_moves, animated_pieces, game_over,
              winner, player_color, state, two_player_mode,
              computer_move_scheduled, computer_thinking_start, engine>>
vars == <<progvars, clock, last, returns, button, callback_calls>>

self == [board |-> board, selected_square |-> selected_square,
         valid_moves |-> valid_moves, animated_pieces |-> animated_pieces,
         game_over |-> game_over, winner |-> winner,
         player_color |-> player_color, state |-> state,
         two_player_mode |-> two_player_mode,
         computer_move_scheduled |-> computer_move_scheduled,
         computer_thinking_start |-> computer_thinking_start,
         engine |-> engine]

Becomes(g) ==
    /\ board' = g.board
    /\ selected_square' = g.selected_square
    /\ valid_moves' = g.valid_moves
    /\ animated_pieces' = g.animated_pieces
    /\ game_over' = g.game_over
    /\ winner' = g.winner
    /\ player_color' = g.player_color
    /\ state' = g.state
    /\ two_player_mode' = g.two_player_mode
    /\ computer_move_scheduled' = g.computer_move_scheduled
    /\ computer_thinking_start' = g.computer_thinking_start
    /\ engine' = g.engine

\* the object is in the state g
Holds(g) ==
    /\ board = g.board
    /\ selected_square = g.selected_square
    /\ valid_moves = g.valid_moves
    /\ animated_pieces = g.animated_pieces
    /\ game_over = g.game_over
    /\ winner = g.winner
    /\ player_color = g.player_color
    /\ state = g.state
    /\ two_player_mode = g.two_player_mode
    /\ computer_move_scheduled = g.computer_move_scheduled
    /\ computer_thinking_start = g.computer_thinking_start
    /\ engine = g.engine

\* ChessGame.__init__, with the engine found or not
NewGame(eng) ==
    [board |-> InitialBoard, selected_square |-> NoSquare, valid_moves |-> {},
     animated_pieces |-> <<>>, game_over |-> FALSE, winner |-> NoWinner,
     player_color |-> WHITE, state |-> "MENU", two_player_mode |-> ModeUnset,
     computer_move_scheduled |-> FALSE, computer_thinking_start |-> 0,
     engine |-> eng]

(***************************************************************************)
(* AnimatedPiece.                                                          *)
(***************************************************************************)
AnimatedPiece(piece_type, color, start_pos, end_pos) ==
    [piece_type |-> piece_type, color |-> color, start_pos |-> start_pos,
     end_pos |-> end_pos, progress |-> 0]

Min(x, y) == IF x < y THEN x ELSE y

\* update without the cap at full progress
update_Uncapped(ap) == [ap EXCEPT !.progress = ap.progress + ANIMATION_SPEED]

\* AnimatedPiece.update: the piece after the call
update(ap) == [ap EXCEPT !.progress = Min(FULL_PROGRESS, ap.progress + ANIMATION_SPEED)]
\* AnimatedPiece.update: the value returned
update_done(ap) == update(ap).progress >= FULL_PROGRESS

(***************************************************************************)
(* Button.  A rectangle is its left, top, width and height; an event has   *)
(* a type and, where pygame gives them, a button number and a position.    *)
(***************************************************************************)
Rect(x, y, w, h) == [x |-> x, y |-> y, w |-> w, h |-> h]

\* pygame.Rect.collidepoint: the left and top edges are inside, the right
\* and bottom edges are not
collidepoint(rect, pos) ==
    /\ rect.x <= pos[1] /\ pos[1] < rect.x + rect.w
    /\ rect.y <= pos[2] /\ pos[2] < rect.y + rect.h

\* Button.__init__
Button(x, y, w, h) == [rect |-> Rect(x, y, w, h), hover |-> FALSE]

\* the button of test_button
TestButton == Button(100, 200, 300, 50)

MOUSEMOTION == "MOUSEMOTION"
MOUSEBUTTONUP == "MOUSEBUTTONUP"
KEYDOWN == "KEYDOWN"
NoPos == <<-1, -1>>

\* Button.handle_event pressing with any mouse button
Button_handle_event_AnyButton(b, event) ==
    IF event.type = MOUSEMOTION
    THEN [button |-> [b EXCEPT !.hover = collidepoint(b.rect, event.pos)],
          called |-> 0, result |-> FALSE]
    ELSE IF event.type = MOUSEBUTTONDOWN /\ collidepoint(b.rect, event.pos)
    THEN [button |-> b, called |-> 1, result |-> TRUE]
    ELSE [button |-> b, called |-> 0, result |-> FALSE]

\* Button.handle_event: the button after the call, the number of times
\* the callback ran, and the value returned
Button_handle_event(b, event) ==
    IF event.type = MOUSEMOTION
    THEN [button |-> [b EXCEPT !.hover = collidepoint(b.rect, event.pos)],
          called |-> 0, result |-> FALSE]
    ELSE IF event.type = MOUSEBUTTONDOWN
            /\ event.button = 1 /\ collidepoint(b.rect, event.pos)
    THEN [button |-> b, called |-> 1, result |-> TRUE]
    ELSE [button |-> b, called |-> 0, result |-> FALSE]

(***************************************************************************)
(* ChessGame methods, as functions from the object to the object.          *)
(***************************************************************************)
\* resign, recording the side to move as the winner
resign_SideToMove(g) ==
    [g EXCEPT !.game_over = TRUE, !.winner = g.board.turn]

resign(g) ==
    [g EXCEPT !.game_over = TRUE,
              !.winner = IF g.board.turn = WHITE THEN BLACK ELSE WHITE]

\* show_menu leaving the position as it is
show_menu_KeepPosition(g) ==
    [g EXCEPT !.state = "MENU",
              !.selected_square = NoSquare, !.valid_moves = {},
              !.animated_pieces = <<>>, !.game_over = FALSE,
              !.winner = NoWinner]

\* show_menu leaving game_over and winner as they are
show_menu_KeepOutcome(g) ==
    [g EXCEPT !.state = "MENU", !.board = InitialBoard,
              !.selected_square = NoSquare, !.valid_moves = {},
              !.animated_pieces = <<>>]

show_menu(g) ==
    [g EXCEPT !.state = "MENU", !.board = InitialBoard,
              !.selected_square = NoSquare, !.valid_moves = {},
              !.animated_pieces = <<>>, !.game_over = FALSE,
              !.winner = NoWinner]

\* init_engine: `found` tells whether some candidate path launches
init_engine(g, found) ==
    IF found THEN [g EXCEPT !.engine = LiveEngine] ELSE g

\* start_vs_computer leaving the request flag and start time as they are
start_vs_computer_KeepFlag(g, found) ==
    LET g1 == IF g.engine = NoEngine THEN init_engine(g, found) ELSE g
    IN IF g1.engine = NoEngine THEN g1
       ELSE [g1 EXCEPT !.state = "PLAYING", !.board = InitialBoard,
                       !.selected_square = NoSquare, !.valid_moves = {},
                       !.animated_pieces = <<>>, !.game_over = FALSE,
                       !.winner = NoWinner, !.player_color = WHITE,
                       !.two_player_mode = VsComputer]

\* start_vs_computer entering PLAYING whether or not an engine is there
start_vs_computer_NoEngineCheck(g, found) ==
    LET g1 == IF g.engine = NoEngine THEN init_engine(g, found) ELSE g
    IN [g1 EXCEPT !.state = "PLAYING", !.board = InitialBoard,
                  !.selected_square = NoSquare, !.valid_moves = {},
                  !.animated_pieces = <<>>, !.game_over = FALSE,
                  !.winner = NoWinner, !.player_color = WHITE,
                  !.two_player_mode = VsComputer,
                  !.computer_move_scheduled = FALSE,
                  !.computer_thinking_start = 0]

start_vs_computer(g, found) ==
    LET g1 == IF g.engine = NoEngine THEN init_engine(g, found) ELSE g
    IN IF g1.engine = NoEngine THEN g1
       ELSE [g1 EXCEPT !.state = "PLAYING", !.board = InitialBoard,
                       !.selected_square = NoSquare, !.valid_moves = {},
                       !.animated_pieces = <<>>, !.game_over = FALSE,
                       !.winner = NoWinner, !.player_color = WHITE,
                       !.two_player_mode = VsComputer,
                       !.computer_move_scheduled = FALSE,
                       !.computer_thinking_start = 0]

start_vs_human(g) ==
    [g EXCEPT !.state = "PLAYING", !.board = InitialBoard,
              !.selected_square = NoSquare, !.valid_moves = {},
              !.animated_pieces = <<>>, !.game_over = FALSE,
              !.winner = NoWinner, !.player_color = WHITE,
              !.two_player_mode = TwoPlayer]

restart_game(g) ==
    LET g1 == [g EXCEPT !.board = InitialBoard, !.selected_square = NoSquare,
                        !.valid_moves = {}, !.animated_pieces = <<>>,
                        !.game_over = FALSE, !.winner = NoWinner]
    IN IF g.two_player_mode # TwoPlayer
       THEN [g1 EXCEPT !.player_color = WHITE,
                       !.computer_move_scheduled = FALSE,
                       !.computer_thinking_start = 0]
       ELSE g1

\* the condition of check_game_over without the insufficient-material query
IsTerminal_NoInsufficient(b) ==
    is_checkmate(b) \/ is_stalemate(b)

\* the condition under which check_game_over ends the game
IsTerminal(b) ==
    is_checkmate(b) \/ is_stalemate(b) \/ is_insufficient_material(b)

\* check_game_over with the two winners exchanged
check_game_over_Swapped(g) ==
    IF IsTerminal(g.board)
    THEN IF is_checkmate(g.board)
         THEN [g EXCEPT !.game_over = TRUE,
                        !.winner = IF (g.board.turn = WHITE) = (g.player_color = WHITE)
                                   THEN "player" ELSE "computer"]
         ELSE [g EXCEPT !.game_over = TRUE, !.winner = NoWinner]
    ELSE g

check_game_over(g) ==
    IF IsTerminal(g.board)
    THEN IF is_checkmate(g.board)
         THEN IF g.board.turn = WHITE
              THEN [g EXCEPT !.game_over = TRUE,
                             !.winner = IF g.player_color = WHITE
                                        THEN "computer" ELSE "player"]
              ELSE [g EXCEPT !.game_over = TRUE,
                             !.winner = IF g.player_color = WHITE
                                        THEN "player" ELSE "computer"]
         ELSE [g EXCEPT !.game_over = TRUE, !.winner = NoWinner]
    ELSE g

\* pixel centre of a square, as computed in make_move
SquareCentre(sq) ==
    <<square_file(sq) * SQUARE_SIZE + SQUARE_SIZE \div 2,
      (LastRank - square_rank(sq)) * SQUARE_SIZE + SQUARE_SIZE \div 2>>

\* the promotion rewrite of make_move (lines 618-622)
PromoteToQueen(b, move) ==
    LET piece == piece_at(b, move.from_square)
    IN IF /\ piece # NoPiece
          /\ piece.piece_type = PAWN
          /\ \/ piece.color = WHITE /\ square_rank(move.to_square) = LastRank
             \/ piece.color # WHITE /\ square_rank(move.to_square) = 0
       THEN [move EXCEPT !.promotion = QUEEN]
       ELSE move

\* make_move without the legality test
make_move_Unchecked(g, move) ==
    IF piece_at(g.board, move.from_square) # NoPiece
    THEN LET mv == PromoteToQueen(g.board, move)
             piece == piece_at(g.board, mv.from_square)
             ap == AnimatedPiece(piece.piece_type,
                                 IF piece.color = WHITE THEN "w" ELSE "b",
                                 SquareCentre(mv.from_square),
                                 SquareCentre(mv.to_square))
         IN check_game_over(
               [g EXCEPT !.animated_pieces = Append(@, ap),
                         !.board = push(g.board, mv)])
    ELSE g

make_move(g, move) ==
    IF move \in legal_moves(g.board)
    THEN LET mv == PromoteToQueen(g.board, move)
             piece == piece_at(g.board, mv.from_square)
             ap == AnimatedPiece(piece.piece_type,
                                 IF piece.color = WHITE THEN "w" ELSE "b",
                                 SquareCentre(mv.from_square),
                                 SquareCentre(mv.to_square))
         IN check_game_over(
               [g EXCEPT !.animated_pieces = Append(@, ap),
                         !.board = push(g.board, mv)])
    ELSE g

\* select_square (test helper)
select_square(g, sq) ==
    [g EXCEPT !.selected_square = sq,
              !.valid_moves = {m \in legal_moves(g.board) : m.from_square = sq}]

\* the engine's answer to engine.play
EngineReplies(b) ==
    [kind : {"move"}, move : legal_moves(b)]
      \cup [kind : {"nomove", "terminated", "error"}, move : {NoMove}]
NoReply == [kind |-> "nomove", move |-> NoMove]

\* make_computer_move asking the engine without testing that it is there
make_computer_move_NoEngineCheck(g, reply) ==
    CASE reply.kind = "move" ->
            [make_move(g, reply.move) EXCEPT
                 !.computer_move_scheduled = FALSE,
                 !.computer_thinking_start = 0]
      [] reply.kind = "nomove" -> g
      [] reply.kind = "terminated" ->
            [g EXCEPT !.engine = NoEngine, !.game_over = TRUE,
                      !.winner = "player"]
      [] OTHER ->
            [g EXCEPT !.game_over = TRUE, !.winner = "player"]

\* make_computer_move keeping the engine handle after a terminated engine
make_computer_move_KeepEngine(g, reply) ==
    IF g.engine = NoEngine
    THEN [g EXCEPT !.game_over = TRUE, !.winner = "player"]
    ELSE CASE reply.kind = "move" ->
                [make_move(g, reply.move) EXCEPT
                     !.computer_move_scheduled = FALSE,
                     !.computer_thinking_start = 0]
           [] reply.kind = "nomove" -> g
           [] OTHER ->
                [g EXCEPT !.game_over = TRUE, !.winner = "player"]

make_computer_move(g, reply) ==
    IF g.engine = NoEngine
    THEN [g EXCEPT !.game_over = TRUE, !.winner = "player"]
    ELSE CASE reply.kind = "move" ->
                [make_move(g, reply.move) EXCEPT
                     !.computer_move_scheduled = FALSE,
                     !.computer_thinking_start = 0]
           [] reply.kind = "nomove" -> g
           [] reply.kind = "terminated" ->
                [g EXCEPT !.engine = NoEngine, !.game_over = TRUE,
                          !.winner = "player"]
           [] OTHER ->
                [g EXCEPT !.game_over = TRUE, !.winner = "player"]

\* the guard of line 709 without the test of the side to move
InputAccepted_NoTurnCheck(g) == ~g.game_over

\* the guard of line 709: input is taken only while the game is on and the
\* side to move is played by a human
InputAccepted(g) ==
    ~g.game_over /\ (g.two_player_mode = TwoPlayer
                       \/ g.board.turn = g.player_color)

\* SelectPiece accepting a piece of either side
SelectPiece_AnyColour(g, sq) ==
    LET piece == piece_at(g.board, sq)
    IN IF piece # NoPiece
       THEN [g EXCEPT !.selected_square = sq,
                      !.valid_moves = {m \in legal_moves(g.board) :
                                          m.from_square = sq}]
       ELSE g

\* lines 717-724: a press with no square selected
SelectPiece(g, sq) ==
    LET piece == piece_at(g.board, sq)
    IN IF piece # NoPiece /\ piece.color = g.board.turn
       THEN [g EXCEPT !.selected_square = sq,
                      !.valid_moves = {m \in legal_moves(g.board) :
                                          m.from_square = sq}]
       ELSE g

\* PlaySelected clearing the Selection only when no move is applied
PlaySelected_KeepAfterMove(g, sq) ==
    LET move == Move(g.selected_square, sq)
    IN IF move \in g.valid_moves
       THEN make_move(g, move)
       ELSE [g EXCEPT !.selected_square = NoSquare, !.valid_moves = {}]

\* PlaySelected keeping the Selection when the press is not a destination
PlaySelected_KeepSelection(g, sq) ==
    LET move == Move(g.selected_square, sq)
    IN IF move \in g.valid_moves
       THEN [make_move(g, move) EXCEPT !.selected_square = NoSquare,
                                       !.valid_moves = {}]
       ELSE g

\* lines 725-736: a press with a square selected
PlaySelected(g, sq) ==
    LET move == Move(g.selected_square, sq)
        promo ==
           /\ piece_at(g.board, g.selected_square).piece_type = PAWN
           /\ \/ g.board.turn = WHITE /\ square_rank(move.to_square) = LastRank
              \/ g.board.turn # WHITE /\ square_rank(move.to_square) = 0
        g1 == IF move \in g.valid_moves
              THEN make_move(g, IF promo THEN [move EXCEPT !.promotion = QUEEN]
                                ELSE move)
              ELSE g
    IN [g1 EXCEPT !.selected_square = NoSquare, !.valid_moves = {}]

handle_event(g, event) ==
    IF event.type = MOUSEBUTTONDOWN /\ event.button = 1
    THEN IF InputAccepted(g)
         THEN LET file == event.pos.file
                  rank == event.pos.rank
              IN IF file >= 0 /\ file < NumFiles /\ rank >= 0 /\ rank < NumRanks
                 THEN IF g.selected_square = NoSquare
                      THEN SelectPiece(g, square(file, rank))
                      ELSE PlaySelected(g, square(file, rank))
                 ELSE g
         ELSE g
    ELSE g

(***************************************************************************)
(* Button.handle_event and the event routing of run (lines 807-818).       *)
(***************************************************************************)
\* the press is a primary-button press inside the named button's rectangle
Clicked(event, name) ==
    event.type = MOUSEBUTTONDOWN /\ event.button = 1 /\ event.pos.hit = name

\* `found`: whether init_engine finds an engine, should it be called
RouteEvent(g, event, found) ==
    IF g.game_over
    THEN IF Clicked(event, "Back to Menu") THEN show_menu(g) ELSE g
    ELSE IF g.state = "MENU"
    THEN LET g1 == IF Clicked(event, "Play vs Computer")
                   THEN start_vs_computer(g, found) ELSE g
         IN IF Clicked(event, "Play with a Friend") THEN start_vs_human(g1) ELSE g1
    ELSE IF g.state = "PLAYING"
    THEN LET g1 == IF Clicked(event, "Restart Game") THEN restart_game(g) ELSE g
             g2 == IF Clicked(event, "Resign") THEN resign(g1) ELSE g1
             g3 == IF Clicked(event, "Main Menu") THEN show_menu(g2) ELSE g2
         IN IF ~g3.game_over THEN handle_event(g3, event) ELSE g3
    ELSE g

\* which branch of the routing the event takes
RoutePath(g, event) ==
    LET onBoard == event.pos.file < NumFiles
        pressed == event.type = MOUSEBUTTONDOWN /\ event.button = 1
        sq == square(event.pos.file, event.pos.rank)
    IN IF g.game_over
       THEN IF Clicked(event, "Back to Menu") THEN "back_to_menu" ELSE "ignored"
       ELSE IF g.state = "MENU"
       THEN IF Clicked(event, "Play vs Computer") THEN "start_vs_computer"
            ELSE IF Clicked(event, "Play with a Friend") THEN "start_vs_human"
            ELSE "ignored"
       ELSE IF Clicked(event, "Restart Game") THEN "restart_game"
       ELSE IF Clicked(event, "Resign") THEN "resign"
       ELSE IF Clicked(event, "Main Menu") THEN "show_menu"
       ELSE IF ~(pressed /\ onBoard) THEN "ignored"
       ELSE IF ~(g.two_player_mode = TwoPlayer \/ g.board.turn = g.player_color)
       THEN "board_ignored"
       ELSE IF g.selected_square = NoSquare
       THEN IF piece_at(g.board, sq).color = g.board.turn
            THEN "select" ELSE "no_select"
       ELSE IF Move(g.selected_square, sq) \in g.valid_moves
            THEN "move" ELSE "deselect"

(***************************************************************************)
(* One iteration of run after the events: animation update and the         *)
(* computer's move (lines 820-847).  `now` is the frame's clock reading,   *)
(* `reply` the engine's answer should a request be issued.                 *)
(***************************************************************************)
\* the animation update keeping the pieces that report completion
UpdateAnimations_KeepCompleted(aps) ==
    [i \in 1 .. Len(aps) |-> update(aps[i])]

UpdateAnimations(aps) ==
    LET RECURSIVE Go(_)
        Go(rest) ==
            IF rest = <<>> THEN <<>>
            ELSE IF update_done(Head(rest)) THEN Go(Tail(rest))
            ELSE <<update(Head(rest))>> \o Go(Tail(rest))
    IN Go(aps)

\* the computer-move condition without the test of game_over
ComputerDue_IgnoreGameOver(g) ==
    /\ g.state = "PLAYING"
    /\ g.two_player_mode # TwoPlayer
    /\ g.board.turn # g.player_color
    /\ g.animated_pieces = <<>>

\* the computer-move condition without the test of the game mode
ComputerDue_AnyMode(g) ==
    /\ g.state = "PLAYING"
    /\ ~g.game_over
    /\ g.board.turn # g.player_color
    /\ g.animated_pieces = <<>>

ComputerDue(g) ==
    /\ g.state = "PLAYING"
    /\ ~g.game_over
    /\ g.two_player_mode # TwoPlayer
    /\ g.board.turn # g.player_color
    /\ g.animated_pieces = <<>>

\* the frame body recording the start time again on every frame that waits
FrameUpdate_RestartsClock(g, now, reply) ==
    LET g1 == [g EXCEPT !.animated_pieces = UpdateAnimations(g.animated_pieces)]
    IN IF ComputerDue(g1)
       THEN IF ~g1.computer_move_scheduled
            THEN make_computer_move(
                    [g1 EXCEPT !.computer_move_scheduled = TRUE,
                               !.computer_thinking_start = now], reply)
            ELSE [g1 EXCEPT !.computer_thinking_start = now]
       ELSE g1

\* the frame body without the timeout branch
FrameUpdate_NoTimeout(g, now, reply) ==
    LET g1 == [g EXCEPT !.animated_pieces = UpdateAnimations(g.animated_pieces)]
    IN IF ComputerDue(g1) /\ ~g1.computer_move_scheduled
       THEN make_computer_move(
               [g1 EXCEPT !.computer_move_scheduled = TRUE,
                          !.computer_thinking_start = now], reply)
       ELSE g1

\* the frame body asking the engine whatever the request flag says
FrameUpdate_NoFlagTest(g, now, reply) ==
    LET g1 == [g EXCEPT !.animated_pieces = UpdateAnimations(g.animated_pieces)]
    IN IF ComputerDue(g1)
       THEN make_computer_move(
               [g1 EXCEPT !.computer_move_scheduled = TRUE,
                          !.computer_thinking_start = now], reply)
       ELSE g1

FrameUpdate(g, now, reply) ==
    LET g1 == [g EXCEPT !.animated_pieces = UpdateAnimations(g.animated_pieces)]
    IN IF ComputerDue(g1)
       THEN IF ~g1.computer_move_scheduled
            THEN make_computer_move(
                    [g1 EXCEPT !.computer_move_scheduled = TRUE,
                               !.computer_thinking_start = now], reply)
            ELSE IF now - g1.computer_thinking_start > TIMEOUT_MS
            THEN [g1 EXCEPT !.computer_move_scheduled = FALSE,
                            !.computer_thinking_start = 0,
                            !.game_over = TRUE, !.winner = "player"]
            ELSE g1
       ELSE g1

FramePath(g, now) ==
    LET g1 == [g EXCEPT !.animated_pieces = UpdateAnimations(g.animated_pieces)]
    IN IF ComputerDue(g1)
       THEN IF ~g1.computer_move_scheduled THEN "request"
            ELSE IF now - g1.computer_thinking_start > TIMEOUT_MS THEN "timeout"
            ELSE "waiting"
       ELSE "idle"

(***************************************************************************)
(* The event loop.                                                         *)
(***************************************************************************)
\* The clock is kept relative.  The program uses a clock reading only in
\* the difference to computer_thinking_start, and only while a request is
\* in flight in a running game against the computer: the reading is
\* re-based to 0 whenever that is not the case (the flag is reset before it
\* is read again).  A frame lasts 0 or TimeStep ms of model time.
TimeStep == 600
\* the readings go far enough for a request issued at the first step to
\* time out: the first reading more than TIMEOUT_MS after it is allowed
MaxClock == TimeStep * (TIMEOUT_MS \div TimeStep + 2)

InFlight(g) ==
    /\ g.computer_move_scheduled
    /\ g.state = "PLAYING"
    /\ ~g.game_over
    /\ g.two_player_mode = VsComputer

\* the last operation: its kind, the branch it took and, for a direct call
\* of make_move with a legal move, that move.  An event that no handler
\* takes, a press on a square that selects nothing, and a frame that only
\* advances animations or waits are not recorded.
Op(op, path, move) == [op |-> op, path |-> path, move |-> move]

Init ==
    /\ \E eng \in {NoEngine, LiveEngine} : Holds(NewGame(eng))
    /\ clock = 0
    /\ returns = <<>>
    /\ button = TestButton
    /\ callback_calls = 0
    /\ last = Op("init", "none", NoMove)

\* the model plays at most MaxPlies moves per game and keeps at most
\* MaxAnims animations
WithinBounds(g) ==
    /\ g.board.ply <= MaxPlies
    /\ Len(g.animated_pieces) <= MaxAnims

\* a further move keeps the object within the bounds
RoomForMove(g) ==
    /\ g.board.ply < MaxPlies
    /\ Len(g.animated_pieces) < MaxAnims

EventStep(event, found) ==
    /\ RoutePath(self, event) = "move" => RoomForMove(self)
    /\ \E g \in {RouteEvent(self, event, found)} :
          /\ WithinBounds(g)
          /\ Becomes(g)
          /\ clock' = IF InFlight(g) THEN clock ELSE 0
          /\ returns' = returns
          /\ UNCHANGED <<button, callback_calls>>
          /\ last' = IF RoutePath(self, event) \in {"ignored", "no_select"}
                     THEN last
                     ELSE Op("event", RoutePath(self, event), NoMove)

\* init_engine is reached only from "Play vs Computer" without an engine
LaunchOutcomes(g, event) ==
    IF RoutePath(g, event) = "start_vs_computer" /\ g.engine = NoEngine
    THEN BOOLEAN ELSE {FALSE}

HandleEvents ==
    \E event \in Events :
       \E found \in LaunchOutcomes(self, event) : EventStep(event, found)

FrameStep(dt, reply) ==
    /\ clock + dt <= MaxClock
    /\ reply.kind = "move" => self.board.ply < MaxPlies
    /\ \E now \in {clock + dt} : \E g \in {FrameUpdate(self, now, reply)} :
          /\ now <= MaxClock
          /\ WithinBounds(g)
          /\ Becomes(g)
          /\ clock' = IF InFlight(g) THEN now ELSE 0
          /\ returns' = returns
          /\ UNCHANGED <<button, callback_calls>>
          /\ last' = IF FramePath(self, now) \in {"idle", "waiting"}
                     THEN last
                     ELSE Op("frame", FramePath(self, now), NoMove)

Frame ==
    \E dt \in (IF InFlight(self) \/ FramePath(self, clock) = "request"
              THEN {0, TimeStep} ELSE {0}) :
       \E reply \in (IF FramePath(self, clock + dt) = "request"
                     THEN EngineReplies(self.board) ELSE {NoReply}) :
          FrameStep(dt, reply)

Next == HandleEvents \/ Frame

Spec == Init /\ [][Next]_vars

\* a frame in which the engine, if it is asked, gives no move
FrameNoReply ==
    \E dt \in (IF InFlight(self) \/ FramePath(self, clock) = "request"
              THEN {0, TimeStep} ELSE {0}) :
       FrameStep(dt, NoReply)

\* run executes the frame body in every iteration of its loop and the
\* clock it reads advances: a frame that would change the state is not put
\* off for ever.  Nothing is assumed of the engine's answers, so fairness
\* is asked of the frames alone, not of the frames that get a move.
SpecFair == Spec /\ WF_vars(FrameNoReply)

(***************************************************************************)
(* Direct calls of the methods, as the tests make them: the fixture        *)
(* forces state = "PLAYING" on a fresh object, the test may set up a       *)
(* position, then calls select_square and make_move with any move.         *)
(***************************************************************************)
LonePawnBoard ==
    Placement({<<square(1, LastRank - 1), PAWN, WHITE>>}, WHITE)

CaptureToBareKingsBoard ==
    Placement({<<square(0, 0), KING, WHITE>>,
               <<square(1, 1), PAWN, BLACK>>,
               <<square(1, LastRank), KING, BLACK>>}, WHITE)

BlackPromotionBoard ==
    Placement({<<square(0, LastRank), KING, WHITE>>,
               <<square(2, LastRank), KING, BLACK>>,
               <<square(1, 1), PAWN, BLACK>>}, BLACK)

CapturePromotionBoard ==
    Placement({<<square(0, 0), KING, WHITE>>,
               <<square(0, LastRank - 1), PAWN, WHITE>>,
               <<square(1, LastRank), ROOK, BLACK>>,
               <<square(2, 1), KING, BLACK>>}, WHITE)

RookMateBoard ==
    Placement({<<square(2, 0), KING, WHITE>>,
               <<square(2, LastRank - 1), PAWN, WHITE>>,
               <<square(1, LastRank), ROOK, WHITE>>,
               <<square(0, 0), KING, BLACK>>,
               <<square(2, 1), PAWN, BLACK>>}, WHITE)

CornerMateBoard ==
    Placement({<<square(0, 0), KING, WHITE>>,
               <<square(2, 2), ROOK, BLACK>>,
               <<square(2, 0), KING, BLACK>>}, BLACK)

\* the moves the calls are made with: any move of a piece on the board, a
\* pawn's one-rank moves with any promotion request, and a move from each
\* empty square
ApiMoves(b) ==
    {m \in Moves :
        \/ m.promotion = NoPromotion
              /\ (piece_at(b, m.from_square) # NoPiece \/ m.to_square = 0)
        \/ m.promotion # NoPromotion
              /\ piece_at(b, m.from_square).piece_type = PAWN
              /\ Abs(square_rank(m.to_square) - square_rank(m.from_square)) = 1}

ApiBoards == {InitialBoard, LonePawnBoard, CaptureToBareKingsBoard,
              BlackPromotionBoard, CapturePromotionBoard, RookMateBoard,
              CornerMateBoard}

InitApi ==
    /\ \E b \in ApiBoards :
          Holds([NewGame(NoEngine) EXCEPT !.state = "PLAYING", !.board = b])
    /\ clock = 0
    /\ returns = <<>>
    /\ button = TestButton
    /\ callback_calls = 0
    /\ last = Op("init", "none", NoMove)

ApiMakeMove(move) ==
    /\ move \in legal_moves(board) => RoomForMove(self)
    /\ WithinBounds(make_move(self, move))
    /\ Becomes(make_move(self, move))
    /\ clock' = clock
    /\ returns' = returns
    /\ UNCHANGED <<button, callback_calls>>
    /\ last' = IF move \in legal_moves(board)
               THEN Op("make_move", "applied", move)
               ELSE Op("make_move", "rejected", NoMove)

ApiSelectSquare(sq) ==
    /\ Becomes(select_square(self, sq))
    /\ clock' = clock
    /\ returns' = returns
    /\ UNCHANGED <<button, callback_calls>>
    /\ last' = Op("select_square", "none", NoMove)

CallMakeMove == \E move \in ApiMoves(board) : ApiMakeMove(move)
CallSelectSquare == \E sq \in Squares : ApiSelectSquare(sq)

NextApi == CallMakeMove \/ CallSelectSquare

SpecApi == InitApi /\ [][NextApi]_vars


(***************************************************************************)
(* Calls of update() on one AnimatedPiece, as test_animated_piece makes    *)
(* them: a piece is constructed and update() is called on it any number    *)
(* of times, also after it has returned True.                              *)
(***************************************************************************)
MaxCalls == 15

\* the piece the calls are made on
tested_piece == animated_pieces[1]

InitAnim ==
    /\ \E from \in Squares : \E to \in Squares :
          Holds([NewGame(NoEngine) EXCEPT
                    !.animated_pieces =
                       <<AnimatedPiece(PAWN, "b", SquareCentre(from),
                                       SquareCentre(to))>>])
    /\ clock = 0
    /\ returns = <<>>
    /\ button = TestButton
    /\ callback_calls = 0
    /\ last = Op("init", "none", NoMove)

CallUpdate ==
    /\ Len(returns) < MaxCalls
    /\ animated_pieces' = <<update(tested_piece)>>
    /\ returns' = Append(returns, update_done(tested_piece))
    /\ last' = Op("update", "none", NoMove)
    /\ UNCHANGED <<board, selected_square, valid_moves, game_over, winner,
                   player_color, state, two_player_mode,
                   computer_move_scheduled, computer_thinking_start, engine,
                   clock, button, callback_calls>>

NextAnim == CallUpdate

SpecAnim == InitAnim /\ [][NextAnim]_vars

(***************************************************************************)
(* Direct calls of make_computer_move on an object set up as the tests'    *)
(* fixture does, with the engine found or not at construction; `reply`     *)
(* is what the engine would answer if it were asked.                       *)
(***************************************************************************)
InitEngine ==
    /\ \E b \in ApiBoards : \E eng \in {NoEngine, LiveEngine} :
          Holds([NewGame(eng) EXCEPT !.state = "PLAYING", !.board = b])
    /\ clock = 0
    /\ returns = <<>>
    /\ button = TestButton
    /\ callback_calls = 0
    /\ last = Op("init", "none", NoMove)

ApiMakeComputerMove(reply) ==
    /\ (engine # NoEngine /\ reply.kind = "move") => RoomForMove(self)
    /\ Becomes(make_computer_move(self, reply))
    /\ clock' = clock
    /\ returns' = returns
    /\ UNCHANGED <<button, callback_calls>>
    /\ last' = Op("make_computer_move",
                  IF engine = NoEngine THEN "no_engine" ELSE reply.kind,
                  NoMove)

CallMakeComputerMove ==
    \E reply \in EngineReplies(board) : ApiMakeComputerMove(reply)

NextEngine == CallMakeComputerMove

SpecEngine == InitEngine /\ [][NextEngine]_vars

(***************************************************************************)
(* Calls of handle_event on one Button, as test_button makes them: a       *)
(* button is constructed and handed any sequence of events.                *)
(***************************************************************************)
MaxButtonCalls == 4

\* the buttons the calls are made on: the one of test_button and one in
\* the corner of the window
TestedButtons == {TestButton, Button(0, 0, 100, 200)}

\* positions on, just inside and just outside the edges of the buttons
ButtonPositions == {0, 99, 100, 150, 399, 400} \X {0, 199, 200, 225, 249, 250}

\* pointer moves, presses with the buttons 1 to 3, releases and a key press
ButtonEvents ==
    [type : {MOUSEMOTION}, button : {0}, pos : ButtonPositions]
      \cup [type : {MOUSEBUTTONDOWN}, button : 1 .. 3, pos : ButtonPositions]
      \cup [type : {MOUSEBUTTONUP}, button : {1}, pos : ButtonPositions]
      \cup [type : {KEYDOWN}, button : {0}, pos : {NoPos}]

InitButton ==
    /\ Holds(NewGame(NoEngine))
    /\ clock = 0
    /\ returns = <<>>
    /\ button \in TestedButtons
    /\ callback_calls = 0
    /\ last = Op("init", "none", NoMove)

CallHandleEvent ==
    \E event \in ButtonEvents :
       /\ Len(returns) < MaxButtonCalls
       /\ button' = Button_handle_event(button, event).button
       /\ callback_calls' = callback_calls + Button_handle_event(button, event).called
       /\ returns' = Append(returns, Button_handle_event(button, event).result)
       /\ last' = Op("handle_event", event.type, NoMove)
       /\ UNCHANGED <<progvars, clock>>

NextButton == CallHandleEvent

SpecButton == InitButton /\ [][NextButton]_vars

(***************************************************************************)
(* Properties.                                                             *)
(***************************************************************************)
\* a step that played a move on the board (a reset sets ply to 0); after
\* it, last.move is the move handed to make_move
MoveApplied == board'.ply = board.ply + 1

\* the piece a move puts on its destination under the queen policy
Arriving(b, m) ==
    IF IsPromotion(b, m.from_square, m.to_square)
    THEN Piece(QUEEN, piece_at(b, m.from_square).color)
    ELSE piece_at(b, m.from_square)

\* the board c is the board b with m played
Played(b, c, m) ==
    /\ c.turn = Other(b.turn)
    /\ c.ply = b.ply + 1
    /\ piece_at(c, m.from_square) = NoPiece
    /\ piece_at(c, m.to_square) = Arriving(b, m)
    /\ \A sq \in Squares \ {m.from_square, m.to_square} :
          piece_at(c, sq) = piece_at(b, sq)

\* the object after a primary-button press on a square, outside any button
AfterPress(sq) == RouteEvent(self, Press(SquarePoint(sq)), FALSE)

\* PLAYING, game not over, and the side to move is played by a human
HumanToMove ==
    /\ state = "PLAYING"
    /\ ~game_over
    /\ (two_player_mode = TwoPlayer \/ board.turn = player_color)

\* some legal move goes from the selected square to sq
LegalDestination(sq) ==
    \E m \in legal_moves(board) :
       m.from_square = selected_square /\ m.to_square = sq

ResignPoint == [file |-> OffFile, rank |-> 0, hit |-> "Resign"]

PawnToFarRank(b, m) ==
    /\ IsPromotion(b, m.from_square, m.to_square)
    /\ \E x \in legal_moves(b) :
          x.from_square = m.from_square /\ x.to_square = m.to_square

\* C2: a pawn move to the far rank handed to make_move with any promotion
\* request, or with none, leaves a Queen of the mover's side on the
\* destination square.
CE_C2_QueenForAnyRequest ==
    [][/\ \A m \in ApiMoves(board) :
             (PawnToFarRank(board, m) /\ m \notin legal_moves(board)
                /\ ApiMakeMove(m))
                => piece_at(board', m.to_square) = Piece(QUEEN, board.turn)
       /\ (MoveApplied /\ PawnToFarRank(board, last'.move))
             => piece_at(board', last'.move.to_square)
                   = Piece(QUEEN, board.turn)]_vars

\* C3: with the human to move and a Selection, a press on any square that
\* is the destination of a legal move from the selected square plays a
\* move from the selected square to it (a Queen arriving on the far rank)
\* and clears the Selection.
CE_C3_PressOnDestinationPlays ==
    \A sq \in Squares :
       (HumanToMove /\ selected_square # NoSquare /\ LegalDestination(sq))
          => /\ Played(board, AfterPress(sq).board, Move(selected_square, sq))
             /\ AfterPress(sq).selected_square = NoSquare
             /\ AfterPress(sq).valid_moves = {}

\* the effect C4 describes, of the object g the press leaves
SelectionOnlyCleared(g) ==
    /\ g.selected_square = NoSquare
    /\ g.valid_moves = {}
    /\ g.board = board
    /\ g.animated_pieces = animated_pieces
    /\ g.game_over = game_over
    /\ g.winner = winner

Thm_C5_PressSelects ==
    \A sq \in Squares :
       (HumanToMove /\ selected_square = NoSquare)
          => /\ IF piece_at(board, sq).color = board.turn
                THEN /\ AfterPress(sq).selected_square = sq
                     /\ AfterPress(sq).valid_moves =
                           {m \in legal_moves(board) : m.from_square = sq}
                ELSE /\ AfterPress(sq).selected_square = NoSquare
                     /\ AfterPress(sq).valid_moves = {}
             /\ AfterPress(sq).board = board

\* a piece without a legal move is selected, with an empty destination set
Wit_C5_SelectedStuckPiece ==
    /\ last.op = "event" /\ last.path = "select"
    /\ selected_square # NoSquare
    /\ piece_at(board, selected_square).color = board.turn
    /\ valid_moves = {}

\* the points of the board area, under a button rectangle or not
OnBoardPoints == {pt \in Points : pt.file < NumFiles}

\* the game is over, or it is the computer's turn in a game against it
InputClosed ==
    \/ game_over
    \/ (two_player_mode = VsComputer /\ board.turn # player_color)

\* C6 as stated: a press on the board changes no Selection and applies no
\* move when the game is over, or when the game is against the computer and
\* the side to move is not the human's.
CE_C6_PressIgnored ==
    \A pt \in OnBoardPoints :
       InputClosed
          => /\ RouteEvent(self, Press(pt), FALSE).selected_square = selected_square
             /\ RouteEvent(self, Press(pt), FALSE).valid_moves = valid_moves
             /\ RouteEvent(self, Press(pt), FALSE).board.ply # board.ply + 1

\* C6 amended: a press on the board outside the Back to Menu button, which
\* is laid over the board once the game is over, changes nothing when the
\* game is over, or when the game is against the computer and the side to
\* move is not the human's.
Thm_C6_PressIgnored ==
    \A pt \in OnBoardPoints :
       (InputClosed /\ ~(game_over /\ pt.hit \in GameOverButtons))
          => RouteEvent(self, Press(pt), FALSE) = self

\* a board press was ignored on the computer's turn
Wit_C6_IgnoredOnComputerTurn ==
    /\ last.op = "event" /\ last.path = "board_ignored"
    /\ state = "PLAYING" /\ ~game_over
    /\ two_player_mode = VsComputer
    /\ board.turn # player_color

\* C7: after an applied move that leaves the side to move checkmated,
\* game_over is true and the winner is "player" when the mover's side is
\* player_color and "computer" otherwise.
Thm_C7_CheckmateWinner ==
    [][(MoveApplied /\ is_checkmate(board'))
          => /\ game_over'
             /\ winner' = IF board.turn = player_color
                          THEN "player" ELSE "computer"]_vars

\* a move of the side that is not player_color has mated
Wit_C7_ComputerMates ==
    /\ last.op = "make_move" /\ last.path = "applied"
    /\ is_checkmate(board)
    /\ board.turn = player_color
    /\ game_over /\ winner = "computer"

\* C8: right after make_move applies a move in a game that is not over,
\* game_over is true iff the new position is checkmate, stalemate or
\* insufficient material; for stalemate and insufficient material the
\* winner is none; otherwise game_over stays false and winner unset.
Thm_C8_GameOverDetection ==
    [][(~game_over /\ MoveApplied)
          => LET terminal == \/ is_checkmate(board')
                             \/ is_stalemate(board')
                             \/ is_insufficient_material(board')
             IN /\ game_over' <=> terminal
                /\ (terminal /\ ~is_checkmate(board')) => winner' = NoWinner
                /\ ~terminal => winner' = NoWinner]_vars

\* a capture has left insufficient material and the game is drawn
Wit_C8_DrawnByMaterial ==
    /\ last.op = "make_move" /\ last.path = "applied"
    /\ is_insufficient_material(board)
    /\ ~is_stalemate(board) /\ ~is_checkmate(board)
    /\ game_over /\ winner = NoWinner

\* the object after a primary-button press on the Resign button
AfterResign == RouteEvent(self, Press(ResignPoint), FALSE)

\* C9: Resign sets game_over in the same step, records the opponent of the
\* side to move as winner whatever the position, and leaves the position
\* unchanged.
Thm_C9_Resign ==
    (state = "PLAYING" /\ ~game_over)
       => /\ AfterResign.game_over
          /\ AfterResign.winner = Other(board.turn)
          /\ AfterResign.board = board

\* a game was resigned after a move had been played
Wit_C9_Resigned ==
    /\ last.op = "event" /\ last.path = "resign"
    /\ game_over
    /\ winner = Other(board.turn)
    /\ board.ply > 0

\* C10: against the computer, Resign at any moment of PLAYING while the
\* game is not over records the computer's side as winner, never the
\* human's.
CE_C10_ResignLosesToComputer ==
    (state = "PLAYING" /\ ~game_over /\ two_player_mode = VsComputer)
       => AfterResign.winner = Other(player_color)

VsComputerPoint == [file |-> 1, rank |-> 1, hit |-> "Play vs Computer"]
VsFriendPoint == [file |-> 1, rank |-> 1, hit |-> "Play with a Friend"]

\* the object after a press on "Play vs Computer", the launch found or not
AfterVsComputer(found) == RouteEvent(self, Press(VsComputerPoint), found)

\* C11: "Play vs Computer" in MENU with no engine and every launch failing
\* is refused: the object is left as it was, state MENU included (the call
\* returns normally); with a launch that succeeds, or an engine already
\* there, the state becomes PLAYING.
Thm_C11_LaunchRefused ==
    (state = "MENU" /\ ~game_over)
       => /\ engine = NoEngine => /\ AfterVsComputer(FALSE) = self
                                  /\ AfterVsComputer(TRUE).state = "PLAYING"
          /\ engine # NoEngine => \A found \in BOOLEAN :
                                     AfterVsComputer(found).state = "PLAYING"

\* a launch was refused after a game had been played
Wit_C11_RefusedAfterGame ==
    /\ last.op = "event" /\ last.path = "start_vs_computer"
    /\ state = "MENU"
    /\ engine = NoEngine
    /\ two_player_mode # ModeUnset

\* the object g is at the start of a game: initial position, no Selection,
\* no animation, game not over, no winner
FreshGame(g) ==
    /\ g.board = InitialBoard
    /\ g.selected_square = NoSquare
    /\ g.valid_moves = {}
    /\ g.animated_pieces = <<>>
    /\ ~g.game_over
    /\ g.winner = NoWinner

\* C12: every event that takes the object from MENU to PLAYING, after any
\* history of games, leaves the initial position, no Selection, an empty
\* destination set, no animation, game_over false and winner unset; the
\* start against the computer also leaves the request flag false.
Thm_C12_StartIsFresh ==
    state = "MENU"
       => \A event \in Events : \A found \in BOOLEAN :
             RouteEvent(self, event, found).state = "PLAYING"
                => /\ FreshGame(RouteEvent(self, event, found))
                   /\ RouteEvent(self, event, found).two_player_mode = VsComputer
                         => ~RouteEvent(self, event, found).computer_move_scheduled

\* a game with a friend has started while the request flag of an earlier
\* game against the computer is still set
Wit_C12_StartedAfterFlaggedGame ==
    /\ last.op = "event" /\ last.path = "start_vs_human"
    /\ state = "PLAYING"
    /\ two_player_mode = TwoPlayer
    /\ computer_move_scheduled
    /\ FreshGame(self)

MainMenuPoint == [file |-> OffFile, rank |-> 0, hit |-> "Main Menu"]
BackToMenuPoint == [file |-> 1, rank |-> 1, hit |-> "Back to Menu"]

\* the object after a press on the button that leads to the menu: "Main
\* Menu" while the game is on, "Back to Menu" once it is over
AfterMenuButton ==
    RouteEvent(self, Press(IF game_over THEN BackToMenuPoint ELSE MainMenuPoint),
               FALSE)

\* C13: in every state with state = PLAYING, game over or not, the routing
\* dispatches a main-menu action (the Main Menu button while the game is
\* on, the Back to Menu button once it is over), which leads to MENU with
\* the initial position, no Selection, no animation, game_over false and
\* winner unset.
Thm_C13_MenuAlwaysReachable ==
    state = "PLAYING"
       => /\ AfterMenuButton.state = "MENU"
          /\ FreshGame(AfterMenuButton)

\* the menu was entered from a finished game against the computer
Wit_C13_BackFromFinishedGame ==
    /\ last.op = "event" /\ last.path = "back_to_menu"
    /\ state = "MENU"
    /\ FreshGame(self)
    /\ two_player_mode = VsComputer

RestartPoint == [file |-> OffFile, rank |-> 0, hit |-> "Restart Game"]

\* the object after a press on the Restart Game button
AfterRestart == RouteEvent(self, Press(RestartPoint), FALSE)

\* C14: in PLAYING, during play and after game_over has been set, the
\* restart action is dispatched by the routing and leaves state PLAYING,
\* the initial position, no Selection, no animation, game_over false and
\* winner unset, with the game mode and the human's side as they were.
CE_C14_RestartAlwaysAvailable ==
    state = "PLAYING"
       => /\ AfterRestart.state = "PLAYING"
          /\ FreshGame(AfterRestart)
          /\ AfterRestart.two_player_mode = two_player_mode
          /\ AfterRestart.player_color = player_color

\* the clock readings of the next frame
FrameTimes == {clock, clock + TimeStep}

\* the frame at `now` asks the engine for a move: its outcome depends on
\* the engine's answer
RequestIssued(now) ==
    \E reply \in EngineReplies(board) :
       FrameUpdate(self, now, reply) # FrameUpdate(self, now, NoReply)

\* C15: a frame asks the engine for a move only in a game against the
\* computer with the request flag false; the frame then ends with the flag
\* set and the start time recorded, unless the engine's move was played,
\* which clears both.  While the flag is set no frame asks the engine.
\* The flag is false whenever it is the human's turn in a running game
\* against the computer, so each computer turn starts without a request
\* and gets one.
Thm_C15_OneRequestPerTurn ==
    /\ \A now \in FrameTimes :
          RequestIssued(now)
             => /\ ~computer_move_scheduled
                /\ two_player_mode = VsComputer
                /\ \A reply \in EngineReplies(board) :
                      IF FrameUpdate(self, now, reply).board # board
                      THEN /\ ~FrameUpdate(self, now, reply).computer_move_scheduled
                           /\ FrameUpdate(self, now, reply).computer_thinking_start = 0
                      ELSE /\ FrameUpdate(self, now, reply).computer_move_scheduled
                           /\ FrameUpdate(self, now, reply).computer_thinking_start = now
    /\ (state = "PLAYING" /\ ~game_over /\ two_player_mode = VsComputer
          /\ board.turn = player_color)
          => ~computer_move_scheduled

\* a request is outstanding: the engine was asked and gave no move
Wit_C15_RequestOutstanding ==
    /\ last.op = "frame" /\ last.path = "request"
    /\ state = "PLAYING" /\ ~game_over
    /\ two_player_mode = VsComputer
    /\ board.turn # player_color
    /\ computer_move_scheduled
    /\ computer_thinking_start = TimeStep

\* clock readings later than the recorded start by more than the ceiling
LateTimes == {computer_thinking_start + TIMEOUT_MS + d : d \in {1, TimeStep}}

\* the flag is set and it is the computer's turn in a game against it
RequestPending ==
    /\ computer_move_scheduled
    /\ state = "PLAYING"
    /\ two_player_mode = VsComputer
    /\ board.turn # player_color

\* the outcome C16 describes, of the object g the frame leaves
ForfeitedOnTimeout(g) ==
    /\ g.game_over
    /\ g.winner = "player"
    /\ ~g.computer_move_scheduled
    /\ g.computer_thinking_start = 0
    /\ g.engine # NoEngine
    /\ g.board = board

EngineTerminated == [kind |-> "terminated", move |-> NoMove]
EngineError == [kind |-> "error", move |-> NoMove]

\* C17: when the engine has terminated at a move request, the frame ends
\* normally with the engine handle absent, game_over set, winner "player"
\* and the position unchanged.  A game against the computer never runs
\* without an engine handle, and from the menu without a handle "Play vs
\* Computer" launches the engine again: PLAYING is entered only if the
\* launch succeeds.
Thm_C17_TerminatedEngine ==
    /\ \A now \in FrameTimes :
          RequestIssued(now)
             => /\ FrameUpdate(self, now, EngineTerminated).engine = NoEngine
                /\ FrameUpdate(self, now, EngineTerminated).game_over
                /\ FrameUpdate(self, now, EngineTerminated).winner = "player"
                /\ FrameUpdate(self, now, EngineTerminated).board = board
    /\ (state = "PLAYING" /\ two_player_mode = VsComputer /\ ~game_over)
          => engine # NoEngine
    /\ (state = "MENU" /\ ~game_over /\ engine = NoEngine)
          => /\ AfterVsComputer(TRUE).engine = LiveEngine
             /\ AfterVsComputer(TRUE).state = "PLAYING"
             /\ AfterVsComputer(FALSE).state = "MENU"

\* a game against the computer has ended with the engine terminated
Wit_C17_EngineGone ==
    /\ last.op = "frame" /\ last.path = "request"
    /\ state = "PLAYING"
    /\ two_player_mode = VsComputer
    /\ engine = NoEngine
    /\ game_over /\ winner = "player"
    /\ board.ply > 0

\* C18: a fault of the engine at a move request other than termination
\* leaves exactly the state that termination leaves: game_over true,
\* winner "player", the position unchanged and the engine handle absent.
CE_C18_ErrorLikeTermination ==
    \A now \in FrameTimes :
       RequestIssued(now)
          => /\ FrameUpdate(self, now, EngineError)
                   = FrameUpdate(self, now, EngineTerminated)
             /\ FrameUpdate(self, now, EngineError).game_over
             /\ FrameUpdate(self, now, EngineError).winner = "player"
             /\ FrameUpdate(self, now, EngineError).board = board
             /\ FrameUpdate(self, now, EngineError).engine = NoEngine

\* C19: for an AnimatedPiece that starts at progress 0, progress never
\* decreases over update() calls, stays within [0, 1], grows by the step
\* 0.08 per call until it is capped at 1, and reaches 1 first on the 13th
\* call: update() returns False on calls 1..12 and True on call 13.
Thm_C19_ProgressSteps ==
    /\ tested_piece.progress >= 0 /\ tested_piece.progress <= FULL_PROGRESS
    /\ tested_piece.progress = Min(FULL_PROGRESS, Len(returns) * ANIMATION_SPEED)
    /\ update(tested_piece).progress >= tested_piece.progress
    /\ \A i \in 1 .. Len(returns) :
          /\ i < 13 => ~returns[i]
          /\ i = 13 => returns[i]
    /\ Len(returns) < 13 <=> tested_piece.progress < FULL_PROGRESS

\* the 13th call has just returned True
Wit_C19_ThirteenthCall ==
    /\ last.op = "update"
    /\ Len(returns) = 13
    /\ returns[13]
    /\ tested_piece.progress = FULL_PROGRESS

\* C20: over any sequence of update() calls on one AnimatedPiece, calls
\* after completion included, update() returns True exactly once, on the
\* call where progress first reaches 1.0, and on no other call.
CE_C20_TrueExactlyOnce ==
    /\ Cardinality({i \in 1 .. Len(returns) : returns[i]}) <= 1
    /\ tested_piece.progress >= FULL_PROGRESS
          => Cardinality({i \in 1 .. Len(returns) : returns[i]}) = 1


\* the button after handle_event, the callback runs and the value returned
AfterButtonEvent(event) == Button_handle_event(button, event)

\* the event is a primary-button press inside the button's rectangle
PrimaryPressInside(event) ==
    /\ event.type = MOUSEBUTTONDOWN
    /\ event.button = 1
    /\ collidepoint(button.rect, event.pos)

\* C21: a primary-button press inside the rectangle runs the callback
\* once and returns True; every other event (pointer move, press outside,
\* press with another button, another event type) returns False and does
\* not run the callback.  A pointer move sets hover to "the point is
\* inside the rectangle"; every other event leaves hover and the
\* rectangle as they are.  Over a sequence of calls the callback has run
\* once per True returned.
Thm_C21_ButtonHandleEvent ==
    /\ \A event \in ButtonEvents :
          /\ PrimaryPressInside(event)
                => /\ AfterButtonEvent(event).called = 1
                   /\ AfterButtonEvent(event).result
          /\ ~PrimaryPressInside(event)
                => /\ AfterButtonEvent(event).called = 0
                   /\ ~AfterButtonEvent(event).result
          /\ event.type = MOUSEMOTION
                => AfterButtonEvent(event).button.hover
                      = collidepoint(button.rect, event.pos)
          /\ event.type # MOUSEMOTION
                => AfterButtonEvent(event).button.hover = button.hover
          /\ AfterButtonEvent(event).button.rect = button.rect
    /\ callback_calls = Cardinality({i \in 1 .. Len(returns) : returns[i]})

\* the pointer has moved onto the button of test_button, which was then
\* pressed twice with the primary button and once with another
Wit_C21_HoveredAndPressed ==
    /\ button = [TestButton EXCEPT !.hover = TRUE]
    /\ callback_calls = 2
    /\ Len(returns) = 4
    /\ last.op = "handle_event" /\ last.path = MOUSEBUTTONDOWN
    /\ ~returns[4]

\* C22: a frame asks the engine for a move only with state = PLAYING, the
\* game not over, the mode vs-computer, the side to move not the human's
\* and, once the frame has advanced the animations, no animation left; in
\* a game with a friend no frame asks the engine.
Thm_C22_RequestOnlyWhenDue ==
    \A now \in FrameTimes :
       /\ RequestIssued(now)
             => /\ state = "PLAYING"
                /\ ~game_over
                /\ two_player_mode = VsComputer
                /\ board.turn # player_color
                /\ UpdateAnimations(animated_pieces) = <<>>
       /\ two_player_mode = TwoPlayer => ~RequestIssued(now)

\* a game with a friend, with an engine at hand, in which Black is to
\* move and the animation of White's move is over
Wit_C22_FriendGameBlackToMove ==
    /\ state = "PLAYING" /\ ~game_over
    /\ two_player_mode = TwoPlayer
    /\ engine = LiveEngine
    /\ board.turn # player_color
    /\ animated_pieces = <<>>
    /\ last.op = "event" /\ last.path = "move"

\* C23: while an animation is running, a press on a square of the board
\* is ignored: it neither establishes nor clears a Selection and applies
\* no move.
CE_C23_PressIgnoredWhileAnimating ==
    animated_pieces # <<>>
       => \A sq \in Squares :
             /\ AfterPress(sq).selected_square = selected_square
             /\ AfterPress(sq).valid_moves = valid_moves
             /\ AfterPress(sq).board = board

\* the piece has not completed after one more update
StillRunning(ap) == ap.progress + ANIMATION_SPEED < FULL_PROGRESS

\* the pieces of aps that run on, in order, each advanced by one step
Advanced(aps) ==
    LET kept == SelectSeq(aps, StillRunning)
    IN [i \in 1 .. Len(kept) |->
           [kept[i] EXCEPT !.progress = @ + ANIMATION_SPEED]]

\* aps with one piece at progress 0 appended
OneAdded(aps, bps) ==
    /\ Len(bps) = Len(aps) + 1
    /\ SubSeq(bps, 1, Len(aps)) = aps
    /\ bps[Len(bps)].progress = 0

\* the animation set over a step: a move applied by a press adds one
\* piece to the set, a move applied by a frame adds one piece to the set
\* the frame's update has left, and a step that applies no move leaves
\* the set as it is, advances it or empties it (a reset)
AnimationStep ==
    IF MoveApplied
    THEN IF last'.op = "event"
         THEN OneAdded(animated_pieces, animated_pieces')
         ELSE OneAdded(Advanced(animated_pieces), animated_pieces')
    ELSE animated_pieces' \in {animated_pieces, Advanced(animated_pieces), <<>>}

\* a frame's update step advances every piece once and drops exactly the
\* pieces that complete; a piece in the set has had at most 12 updates
AnimationsRunning ==
    /\ \A now \in FrameTimes :
          FrameUpdate(self, now, NoReply).animated_pieces
             = Advanced(animated_pieces)
    /\ \A i \in 1 .. Len(animated_pieces) :
          /\ animated_pieces[i].progress < FULL_PROGRESS
          /\ \E k \in 0 .. 12 :
                animated_pieces[i].progress = k * ANIMATION_SPEED
    /\ selected_square # NoSquare
          => \A sq \in Squares :
                Move(selected_square, sq) \notin legal_moves(board)
                   => make_move(self, Move(selected_square, sq)).animated_pieces
                         = animated_pieces

\* C24: every applied move adds exactly one AnimatedPiece to the set and
\* a rejected move adds none; each frame advances every piece of the set
\* once and removes the pieces whose update reports completion, so no
\* completed piece is left after the update step, a piece is removed at
\* its 13th update, and with the frame loop running a non-empty set
\* becomes empty again.
Thm_C24_AnimationLifecycle ==
    /\ []AnimationsRunning
    /\ [][AnimationStep]_vars
    /\ (animated_pieces # <<>>) ~> (animated_pieces = <<>>)

\* both sides have moved in a game with a friend and the animation of the
\* second move has run to its end
Wit_C24_AnimationsFinished ==
    /\ last.op = "event" /\ last.path = "move"
    /\ two_player_mode = TwoPlayer
    /\ board.ply = 2
    /\ animated_pieces = <<>>

\* C25: called with the engine handle absent, make_computer_move does not
\* ask the engine (what the engine would answer makes no difference): it
\* sets game_over, records "player" as winner and leaves the position,
\* and everything else, as it was.
Thm_C25_AbsentEngineForfeits ==
    engine = NoEngine
       => \A reply \in EngineReplies(board) :
             make_computer_move(self, reply)
                = [self EXCEPT !.game_over = TRUE, !.winner = "player"]

\* make_computer_move has been called without an engine on a position in
\* which the side to move has a legal move
Wit_C25_ForfeitedWithoutEngine ==
    /\ last.op = "make_computer_move" /\ last.path = "no_engine"
    /\ engine = NoEngine
    /\ game_over /\ winner = "player"
    /\ board = InitialBoard
    /\ legal_moves(board) # {}

\* the step goes back to the menu, which sets up the initial position
\* and clears game_over
ResetStep ==
    /\ state' = "MENU"
    /\ ~game_over'
    /\ board' = InitialBoard

\* C26: once game_over is set (by checkmate, draw, resignation, timeout
\* or a fault of the engine), no press and no frame changes the position:
\* neither a press on the board nor an engine move is applied, whatever
\* the engine would answer, and the position changes only with a reset.
Thm_C26_FrozenOnceOver ==
    /\ [](game_over
            => /\ \A sq \in Squares : AfterPress(sq).board = board
               /\ \A now \in FrameTimes : \A reply \in EngineReplies(board) :
                     FrameUpdate(self, now, reply).board = board)
    /\ [][game_over => (board' = board \/ ResetStep)]_vars

\* against the computer the human has moved and resigned while the move
\* was animating; the frames have since run the animation to its end with
\* the computer to move, and the engine has not been asked
Wit_C26_NoMoveAfterResign ==
    /\ last.op = "event" /\ last.path = "resign"
    /\ game_over
    /\ two_player_mode = VsComputer
    /\ board.turn # player_color
    /\ board.ply = 1
    /\ animated_pieces = <<>>

\* the outcomes the game-over overlay tells apart
Outcomes == {"player", "computer", NoWinner}

\* C27: in every state of the event loop the winner is set only if
\* game_over is true, and its value is "player", "computer" or none,
\* whichever way the game has ended.
CE_C27_WinnerIsOutcome ==
    /\ winner # NoWinner => game_over
    /\ winner \in Outcomes

\* C28: in every state of the event loop the Selection agrees with the
\* position: with no square selected the destination set is empty; a
\* selected square holds a piece of the side to move, and every move of
\* the destination set starts at the selected square and is legal in the
\* current position.  Against the computer there is no Selection while it
\* is the computer's turn.
Thm_C28_SelectionConsistent ==
    /\ selected_square = NoSquare => valid_moves = {}
    /\ selected_square # NoSquare
          => /\ piece_at(board, selected_square) # NoPiece
             /\ piece_at(board, selected_square).color = board.turn
             /\ \A m \in valid_moves :
                   /\ m.from_square = selected_square
                   /\ m \in legal_moves(board)
    /\ (state = "PLAYING" /\ two_player_mode = VsComputer
          /\ board.turn # player_color)
          => selected_square = NoSquare

\* against the computer, after the engine's reply, the human has selected
\* a piece that has a legal move
Wit_C28_SelectedAfterReply ==
    /\ last.op = "event" /\ last.path = "select"
    /\ two_player_mode = VsComputer
    /\ board.ply = 2
    /\ selected_square # NoSquare
    /\ valid_moves # {}

\* C29: in every state of the event loop with state = MENU, game_over is
\* false, the winner is unset, there is no Selection, the animation set
\* is empty and the position is the initial one; game_over is raised only
\* by steps that start and end in PLAYING.
Thm_C29_MenuIsFresh ==
    /\ [](state = "MENU" => FreshGame(self))
    /\ [][(~game_over /\ game_over')
             => (state = "PLAYING" /\ state' = "PLAYING")]_vars

\* the Main Menu button was pressed in a game against the computer while
\* a request to the engine was outstanding
Wit_C29_MenuFromRunningGame ==
    /\ last.op = "event" /\ last.path = "show_menu"
    /\ state = "MENU"
    /\ two_player_mode = VsComputer
    /\ computer_move_scheduled
    /\ FreshGame(self)

\* it is the computer's turn in a running game against it
ComputerToMove ==
    /\ state = "PLAYING"
    /\ two_player_mode = VsComputer
    /\ ~game_over
    /\ board.turn # player_color

\* the human is to move again, the game is over, or the game was left
\* for the menu
TurnResolved ==
    \/ board.turn = player_color
    \/ game_over
    \/ state = "MENU"

\* C30: against the computer, with the frame loop running and the clock
\* advancing, every state in which the game is not over and the computer
\* is to move is followed by a state in which the human is to move again
\* (the engine's move was applied or the game was reset) or game_over is
\* set (engine absent, terminated, failed, or no move before the
\* timeout): the program does not wait on the computer's turn for ever.
Thm_C30_ComputerTurnEnds == ComputerToMove ~> TurnResolved

\* the engine's move was applied and the human is to move again
Wit_C30_EngineReplied ==
    /\ last.op = "frame" /\ last.path = "request"
    /\ state = "PLAYING" /\ ~game_over
    /\ two_player_mode = VsComputer
    /\ board.turn = player_color
    /\ board.ply = 2
    /\ ~computer_move_scheduled

=============================================================================
